---- MODULE Spec2Model ----
(***************************************************************************)
(* LoveBot: the inbound-message pipeline of src/app.py                     *)
(* (LoveBot.handle_message) over its collaborators: MessageDatabase        *)
(* (src/data/database.py), CommandHandler (src/services/                   *)
(* command_handler.py), AIProcessor (src/services/ai_processor.py) and     *)
(* WhatsAppIntegration (src/integrations/whatsapp.py).                     *)
(*                                                                         *)
(* Strings whose characters the code inspects (message content) are        *)
(* sequences of one-character strings; identifiers the code only copies    *)
(* and compares (sender, group) are TLA+ strings.  Sentiment scores are    *)
(* integers in hundredths (-70 is the float -0.7).                         *)
(***************************************************************************)
EXTENDS Integers, Sequences, FiniteSets, TLC

VARIABLES
    datetime_bound,   \* whether the global name `datetime` resolves in module app
    clock,            \* the last value datetime.now() returned
    messages,         \* MessageDatabase.messages: the documents, in insertion order
    handlers,         \* one record per handle_message call, in arrival order
    sent,             \* the calls WhatsAppIntegration.send_message made, with results
    pause_requested,  \* history variable: groups whose last pause/resume command was pause
    webhook_handlers, \* WhatsAppIntegration.webhook_handlers: event name -> callback
    webhook_trace     \* history variable: the subscribe_to_messages and process_webhook
                      \* calls so far, in order, each webhook with the calls it made

vars == <<datetime_bound, clock, messages, handlers, sent, pause_requested,
          webhook_handlers, webhook_trace>>

---------------------------------------------------------------------------
(* Bounds of the model *)

MaxMessages == 2      \* inbound payloads per behaviour
MaxInFlight == 2      \* handle_message coroutines suspended at an await at once
MaxLimit == 2         \* largest limit asked of get_conversation_history in the properties
MaxWebhookCalls == 4  \* subscribe_to_messages and process_webhook calls per behaviour

---------------------------------------------------------------------------
(* Program constants *)

HistoryLimit == 50          \* app.py:85  limit=50
InterventionThreshold == -70 \* ai_processor.py:69  score < -0.7

CommandPrefix == <<"#", "l", "o", "v", "e", "b", "o", "t">>

ResponseText == "I noticed there might be some tension. Remember to use 'I' statements."

\* CommandHandler.register_default_commands: command name -> handler
Commands ==
    ( <<"h", "e", "l", "p">> :> "handle_help_command" ) @@
    ( <<"p", "a", "u", "s", "e">> :> "handle_pause_command" ) @@
    ( <<"r", "e", "s", "u", "m", "e">> :> "handle_resume_command" ) @@
    ( <<"s", "e", "t", "t", "i", "n", "g", "s">> :> "handle_settings_command" ) @@
    ( <<"f", "e", "e", "d", "b", "a", "c", "k">> :> "handle_feedback_command" )

---------------------------------------------------------------------------
(* Python string operations used by CommandHandler.process_command *)

\* the characters str.strip() removes
Whitespace == {" ", "\t", "\n", "\r"}

LowerMap ==
    [c \in {"A", "B", "C", "D", "E", "F", "G", "H", "I", "J", "K", "L", "M",
            "N", "O", "P", "Q", "R", "S", "T", "U", "V", "W", "X", "Y", "Z"} |->
       CASE c = "A" -> "a" [] c = "B" -> "b" [] c = "C" -> "c" [] c = "D" -> "d"
         [] c = "E" -> "e" [] c = "F" -> "f" [] c = "G" -> "g" [] c = "H" -> "h"
         [] c = "I" -> "i" [] c = "J" -> "j" [] c = "K" -> "k" [] c = "L" -> "l"
         [] c = "M" -> "m" [] c = "N" -> "n" [] c = "O" -> "o" [] c = "P" -> "p"
         [] c = "Q" -> "q" [] c = "R" -> "r" [] c = "S" -> "s" [] c = "T" -> "t"
         [] c = "U" -> "u" [] c = "V" -> "v" [] c = "W" -> "w" [] c = "X" -> "x"
         [] c = "Y" -> "y" [] c = "Z" -> "z"]

\* str.lower()
Lower(s) == [i \in 1..Len(s) |-> IF s[i] \in DOMAIN LowerMap THEN LowerMap[s[i]] ELSE s[i]]

\* str.startswith(prefix)
StartsWith(s, prefix) ==
    /\ Len(s) >= Len(prefix)
    /\ SubSeq(s, 1, Len(prefix)) = prefix

\* s[n:]
DropFirst(s, n) == SubSeq(s, n + 1, Len(s))

RECURSIVE LStrip(_)
LStrip(s) ==
    IF s # <<>> /\ Head(s) \in Whitespace THEN LStrip(Tail(s)) ELSE s

RECURSIVE RStrip(_)
RStrip(s) ==
    IF s # <<>> /\ s[Len(s)] \in Whitespace THEN RStrip(SubSeq(s, 1, Len(s) - 1)) ELSE s

\* str.strip()
Strip(s) == RStrip(LStrip(s))

\* str.split(' '): the pieces between single spaces; ''.split(' ') is ['']
RECURSIVE SplitSpace(_, _, _)
SplitSpace(s, cur, acc) ==
    IF s = <<>> THEN Append(acc, cur)
    ELSE IF Head(s) = " " THEN SplitSpace(Tail(s), <<>>, Append(acc, cur))
    ELSE SplitSpace(Tail(s), Append(cur, Head(s)), acc)

Split(s) == SplitSpace(s, <<>>, <<>>)

---------------------------------------------------------------------------
(* models/message.py and the inbound payload *)

Senders == {"A", "B"}
GroupIds == {"G1"}
GroupSenders == {"A"}     \* who writes in the group conversation

CPlain == <<"h", "i">>
CPause == CommandPrefix \o <<" ", "p", "a", "u", "s", "e">>
CResume == CommandPrefix \o <<" ", "r", "e", "s", "u", "m", "e">>
Bodies == {CPlain, CPause, CResume}

\* the raw payload handed to handle_message, a dict: 'group_id' may be absent
\* (app.py:70 reads it with .get), and nothing in the code guarantees 'from'
Payloads == [from : Senders, body : Bodies]

PayloadsWithGroup == [from : GroupSenders, group_id : GroupIds, body : Bodies]

PayloadsWithoutSender == [body : {CPlain}]

AllPayloads == Payloads \cup PayloadsWithGroup \cup PayloadsWithoutSender

\* dict.get(key, default)
DictGet(d, key, default) == IF key \in DOMAIN d THEN d[key] ELSE default

\* Message(sender, group, content, timestamp, message_id)
Message(sender, group, content, timestamp, message_id) ==
    [sender |-> sender, group |-> group, content |-> content,
     timestamp |-> timestamp, message_id |-> message_id]

NoMessage == Message("", "", <<>>, 0, "")

---------------------------------------------------------------------------
(* src/services/command_handler.py *)

\* process_command comparing the token as written, without lower()
process_command_case_sensitive(content) ==
    IF ~StartsWith(content, CommandPrefix)
    THEN [handled |-> FALSE, invoked |-> <<>>]
    ELSE LET parts == Split(Strip(DropFirst(content, Len(CommandPrefix))))
             command == IF parts # <<>> THEN parts[1] ELSE <<>>
         IN  IF command \in DOMAIN Commands
             THEN [handled |-> TRUE, invoked |-> <<Commands[command]>>]
             ELSE [handled |-> FALSE, invoked |-> <<>>]

\* CommandHandler.process_command: the value returned and the handlers it awaited
process_command(content) ==
    IF ~StartsWith(content, CommandPrefix)
    THEN [handled |-> FALSE, invoked |-> <<>>]
    ELSE LET parts == Split(Strip(DropFirst(content, Len(CommandPrefix))))
             command == IF parts # <<>> THEN Lower(parts[1]) ELSE <<>>
         IN  IF command \in DOMAIN Commands
             THEN [handled |-> TRUE, invoked |-> <<Commands[command]>>]
             ELSE [handled |-> FALSE, invoked |-> <<>>]

---------------------------------------------------------------------------
(* src/services/ai_processor.py *)

\* the scores SentimentAnalyzer.analyze may give, in hundredths of [-1.0, 1.0]
Scores == {-90, 0}

\* the comparison with the boundary included
determine_response_need_inclusive(score) == score <= InterventionThreshold

\* AIProcessor._determine_response_need
determine_response_need(score) == score < InterventionThreshold

\* AIProcessor.should_respond
should_respond(score) == determine_response_need(score)

---------------------------------------------------------------------------
(* src/data/database.py *)

\* the document insert_one writes
Document(message) ==
    [user_id |-> message.sender, group_id |-> message.group,
     content |-> message.content, timestamp |-> message.timestamp]

\* find({'group_id': group_id}): positions of the matching documents
Find(coll, group_id) == {i \in 1..Len(coll) : coll[i].group_id = group_id}

\* the sort with the direction reversed: oldest first
RECURSIVE SortAscending(_, _)
SortAscending(coll, S) ==
    IF S = {} THEN {<<>>}
    ELSE UNION {
        {<<i>> \o rest : rest \in SortAscending(coll, S \ {i})} :
            i \in {j \in S : \A k \in S : coll[j].timestamp <= coll[k].timestamp}}

\* .sort('timestamp', -1): every order of the positions S by descending
\* timestamp; the order of documents with equal timestamps is not determined
RECURSIVE SortDescending(_, _)
SortDescending(coll, S) ==
    IF S = {} THEN {<<>>}
    ELSE UNION {
        {<<i>> \o rest : rest \in SortDescending(coll, S \ {i})} :
            i \in {j \in S : \A k \in S : coll[k].timestamp <= coll[j].timestamp}}

\* .limit(limit) of the cursor, for limit >= 0: the first limit documents, and
\* all of them for limit 0, which the driver takes as "no limit"
Limit(seq, limit) ==
    IF limit = 0 THEN seq
    ELSE SubSeq(seq, 1, IF Len(seq) < limit THEN Len(seq) ELSE limit)

\* MessageDatabase.get_conversation_history: the lists it may return
get_conversation_history(coll, group_id, limit) ==
    {[k \in 1..Len(Limit(order, limit)) |->
        LET document == coll[order[k]]
        IN  Message(document.user_id, document.group_id, document.content,
                    document.timestamp, "None")] :
        order \in SortDescending(coll, Find(coll, group_id))}

---------------------------------------------------------------------------
(* src/integrations/whatsapp.py *)

\* what client.messages.create may do: give a message with a sid, or raise
ChannelOutcomes ==
    {[ok |-> TRUE, sid |-> "SM1"], [ok |-> FALSE, reason |-> "TwilioRestException"]}

\* send_message without its try / except: the channel's exception leaves it
send_message_uncaught(recipient, text, outcome) ==
    IF outcome.ok
    THEN [raised |-> FALSE, value |-> [status |-> "success", message_id |-> outcome.sid]]
    ELSE [raised |-> TRUE, value |-> [status |-> "error", error |-> outcome.reason]]

\* WhatsAppIntegration.send_message: try / except Exception around the call
send_message(recipient, text, outcome) ==
    IF outcome.ok
    THEN [raised |-> FALSE, value |-> [status |-> "success", message_id |-> outcome.sid]]
    ELSE [raised |-> FALSE, value |-> [status |-> "error", error |-> outcome.reason]]

\* the callables given to subscribe_to_messages: LoveBot.handle_message
\* (app.py:54), a coroutine function, and two plain functions
Callbacks == {"handle_message", "callback_1", "callback_2"}

CoroutineFunctions == {"handle_message"}

\* the 'message' values of the webhook payloads
WebhookMessages == {[from |-> "A", body |-> CPlain], [from |-> "B", body |-> CPlain]}

\* the payloads given to process_webhook: with a 'message', or without one
\* (a delivery status report, an empty dict)
WebhookData ==
    [message : WebhookMessages] \cup [status : {"delivered"}] \cup {<<>>}

\* callback(argument), as process_webhook makes the call: a plain function
\* runs and returns None; a coroutine function returns a coroutine object,
\* which line 80 neither awaits nor schedules
Call(callback, argument) ==
    [callback |-> callback, argument |-> argument,
     returned |-> IF callback \in CoroutineFunctions THEN "coroutine" ELSE "None"]

\* a registration that keeps a handler already registered (dict.setdefault)
subscribe_to_messages_keep_first(registry, callback) ==
    registry @@ ("message" :> callback)

\* WhatsAppIntegration.subscribe_to_messages: webhook_handlers after
\* webhook_handlers['message'] = callback
subscribe_to_messages(registry, callback) ==
    ("message" :> callback) @@ registry

\* WhatsAppIntegration.process_webhook: the calls it makes, in order
process_webhook(registry, data) ==
    IF "message" \in DOMAIN registry /\ "message" \in DOMAIN data
    THEN <<Call(registry["message"], data["message"])>>
    ELSE <<>>

---------------------------------------------------------------------------
(* src/app.py: LoveBot.handle_message, one action per stretch between awaits *)

\* a handle_message call: its position, its locals, and the collaborator
\* methods it has called so far (calls, a history field)
Handler(pc, message, is_command, history, sentiment, error, calls) ==
    [pc |-> pc, message |-> message, is_command |-> is_command,
     history |-> history, sentiment |-> sentiment, error |-> error, calls |-> calls]

\* the call has ended, by returning (pc "done") or by an exception leaving it
\* (pc "raised"): its locals message and history are gone; what process_command
\* returned and the score the decision was taken on stay readable as history
Ended(h, pc, error, calls) ==
    Handler(pc, NoMessage, h.is_command, <<>>, h.sentiment, error, calls)

Running(h) == h.pc \notin {"done", "raised"}

InFlight == {i \in 1..Len(handlers) : Running(handlers[i])}

\* app.py:68-74: the Message built from the payload at time now, or the
\* exception the construction raises (arguments are evaluated in order)
Construct(data, now) ==
    IF "from" \notin DOMAIN data THEN [error |-> "KeyError", message |-> NoMessage]
    ELSE IF "body" \notin DOMAIN data THEN [error |-> "KeyError", message |-> NoMessage]
    ELSE IF ~datetime_bound THEN [error |-> "NameError", message |-> NoMessage]
    ELSE [error |-> "",
          message |-> Message(data["from"], DictGet(data, "group_id", ""),
                              data["body"], now, DictGet(data, "id", ""))]

\* what datetime.now() may return: a later instant than the last reading, or,
\* within the clock's resolution, the same one
Now == IF clock = 0 THEN {1} ELSE {clock, clock + 1}

\* handle_message(message_data) is called: lines 67-77, up to the await of store_message
HandleMessage(data) ==
    /\ Len(handlers) < MaxMessages
    /\ Cardinality(InFlight) < MaxInFlight
    /\ \E now \in Now :
         LET built == Construct(data, now)
         IN  /\ clock' = IF built.error = "" THEN now ELSE clock
             /\ handlers' = Append(handlers,
                   IF built.error # ""
                   THEN Handler("raised", NoMessage, FALSE, <<>>, <<>>, built.error, <<>>)
                   ELSE Handler("store", built.message, FALSE, <<>>, <<>>, "", <<>>))
    /\ UNCHANGED <<webhook_handlers, webhook_trace, datetime_bound, messages, sent, pause_requested>>

\* the history variable pause_requested after the command handlers in invoked
\* ran for group; the handlers themselves change nothing: all five bodies are
\* empty (command_handler.py:45-82)
PauseRequestedAfter(invoked, group) ==
    IF invoked = <<"handle_pause_command">> THEN pause_requested \cup {group}
    ELSE IF invoked = <<"handle_resume_command">> THEN pause_requested \ {group}
    ELSE pause_requested

\* StoreMessage without the return of line 82: a command goes on to the history
StoreMessage_no_return(i) ==
    /\ handlers[i].pc = "store"
    /\ messages' = Append(messages, Document(handlers[i].message))
    /\ LET r == process_command(handlers[i].message.content)
           calls == <<"store_message", "process_command">> \o r.invoked
       IN  /\ handlers' = [handlers EXCEPT ![i] =
                  [@ EXCEPT !.pc = "history", !.is_command = r.handled, !.calls = calls]]
           /\ pause_requested' = PauseRequestedAfter(r.invoked, handlers[i].message.group)
    /\ UNCHANGED <<webhook_handlers, webhook_trace, datetime_bound, clock, sent>>

\* line 77: insert_one completes, and lines 80-82 run in the same stretch:
\* process_command awaits only the command handlers, whose bodies are empty,
\* so the coroutine does not yield before the return or the find of line 85
StoreMessage(i) ==
    /\ handlers[i].pc = "store"
    /\ messages' = Append(messages, Document(handlers[i].message))
    /\ LET r == process_command(handlers[i].message.content)
           calls == <<"store_message", "process_command">> \o r.invoked
       IN  /\ handlers' = [handlers EXCEPT ![i] =
                  IF r.handled THEN Ended([@ EXCEPT !.is_command = TRUE], "done", "", calls)
                  ELSE [@ EXCEPT !.pc = "history", !.is_command = FALSE, !.calls = calls]]
           /\ pause_requested' = PauseRequestedAfter(r.invoked, handlers[i].message.group)
    /\ UNCHANGED <<webhook_handlers, webhook_trace, datetime_bound, clock, sent>>

\* line 77: insert_one raises; nothing in handle_message catches it
StoreMessageFails(i) ==
    /\ handlers[i].pc = "store"
    /\ handlers' = [handlers EXCEPT ![i] =
           Ended(@, "raised", "PyMongoError", <<"store_message">>)]
    /\ UNCHANGED <<webhook_handlers, webhook_trace, datetime_bound, clock, messages, sent, pause_requested>>

\* line 85: get_conversation_history(message.group, limit=50) returns
GetConversationHistory(i) ==
    /\ handlers[i].pc = "history"
    /\ \E h \in get_conversation_history(messages, handlers[i].message.group, HistoryLimit) :
         handlers' = [handlers EXCEPT ![i].pc = "analyze",
                                      ![i].history = h,
                                      ![i].calls = Append(@, "get_conversation_history")]
    /\ UNCHANGED <<webhook_handlers, webhook_trace, datetime_bound, clock, messages, sent, pause_requested>>

\* line 85: the find raises; nothing in handle_message catches it
GetConversationHistoryFails(i) ==
    /\ handlers[i].pc = "history"
    /\ handlers' = [handlers EXCEPT ![i] =
           Ended(@, "raised", "PyMongoError", Append(@.calls, "get_conversation_history"))]
    /\ UNCHANGED <<webhook_handlers, webhook_trace, datetime_bound, clock, messages, sent, pause_requested>>

\* line 88: process_message returns the ProcessedMessage; of it only
\* sentiment.score is read afterwards
ProcessMessage(i) ==
    /\ handlers[i].pc = "analyze"
    /\ \E score \in Scores :
         handlers' = [handlers EXCEPT ![i].pc = "respond",
                                      ![i].sentiment = <<score>>,
                                      ![i].calls = Append(@, "process_message")]
    /\ UNCHANGED <<webhook_handlers, webhook_trace, datetime_bound, clock, messages, sent, pause_requested>>

\* lines 91-95 when should_respond is true: send_message(message.group, response)
Respond(i) ==
    /\ handlers[i].pc = "respond"
    /\ should_respond(handlers[i].sentiment[1])
    /\ \E outcome \in ChannelOutcomes :
         LET r == send_message(handlers[i].message.group, ResponseText, outcome)
             calls == handlers[i].calls \o <<"should_respond", "send_message">>
         IN  /\ sent' = Append(sent, [to |-> handlers[i].message.group, trigger |-> i,
                                      outcome |-> outcome, result |-> r])
             /\ handlers' = [handlers EXCEPT ![i] =
                    IF r.raised THEN Ended(@, "raised", outcome.reason, calls)
                    ELSE Ended(@, "done", "", calls)]
    /\ UNCHANGED <<webhook_handlers, webhook_trace, datetime_bound, clock, messages, pause_requested>>

\* lines 91-95 when should_respond is false: handle_message returns
Suppress(i) ==
    /\ handlers[i].pc = "respond"
    /\ ~should_respond(handlers[i].sentiment[1])
    /\ handlers' = [handlers EXCEPT ![i] =
           Ended(@, "done", "", Append(@.calls, "should_respond"))]
    /\ UNCHANGED <<webhook_handlers, webhook_trace, datetime_bound, clock, messages, sent, pause_requested>>

---------------------------------------------------------------------------
(* The specification *)

\* app.py:1-10 imports no name datetime, and line 72 looks it up in the
\* module's globals at call time: the lookup raises NameError unless the
\* embedding process has bound the name there
Init ==
    /\ datetime_bound \in BOOLEAN
    /\ clock = 0
    /\ messages = <<>>
    /\ handlers = <<>>
    /\ sent = <<>>
    /\ pause_requested = {}
    /\ webhook_handlers = <<>>
    /\ webhook_trace = <<>>

Next ==
    \/ \E data \in AllPayloads : HandleMessage(data)
    \/ \E i \in 1..Len(handlers) : StoreMessage(i)
    \/ \E i \in 1..Len(handlers) : StoreMessageFails(i)
    \/ \E i \in 1..Len(handlers) : GetConversationHistory(i)
    \/ \E i \in 1..Len(handlers) : GetConversationHistoryFails(i)
    \/ \E i \in 1..Len(handlers) : ProcessMessage(i)
    \/ \E i \in 1..Len(handlers) : Respond(i)
    \/ \E i \in 1..Len(handlers) : Suppress(i)

Spec == Init /\ [][Next]_vars

\* the same program when each handle_message call ends before the next
\* payload arrives
NextSequential == Next /\ Cardinality(InFlight') <= 1

SpecSequential == Init /\ [][NextSequential]_vars

---------------------------------------------------------------------------
(* Specifications that exercise one step over a wide range of inputs *)

\* message contents around the command syntax: prefix, gap, token, remainder
ContentPrefixes ==
    {<<>>, CommandPrefix, <<"#", "L", "o", "v", "e", "b", "o", "t">>,
     <<"x">> \o CommandPrefix, <<"#", "l", "o", "v", "e", "b", "o">>}

ContentGaps == {<<>>, <<" ">>, <<" ", " ">>, <<"\t">>}

ContentTokens ==
    DOMAIN Commands \cup
    {<<"P", "A", "U", "S", "E">>, <<"H", "e", "l", "p">>, <<"f", "r", "o", "b">>,
     <<"p", "a", "u", "s", "e", "x">>, <<>>}

ContentRests ==
    {<<>>, <<" ">>, <<" ", "x">>, <<"\t", "x">>, <<"\n">>, <<"\t", " ", "x">>}

CommandContents ==
    {p \o g \o t \o r : p \in ContentPrefixes, g \in ContentGaps,
                        t \in ContentTokens, r \in ContentRests}

\* a message with any of these contents has arrived and awaits its insert
InitCommand ==
    /\ datetime_bound = TRUE
    /\ clock = 1
    /\ messages = <<>>
    /\ \E content \in CommandContents :
         handlers = <<Handler("store", Message("A", "G1", content, 1, ""),
                              FALSE, <<>>, <<>>, "", <<>>)>>
    /\ sent = <<>>
    /\ pause_requested = {}
    /\ webhook_handlers = <<>>
    /\ webhook_trace = <<>>

NextCommand == \E i \in 1..Len(handlers) : StoreMessage(i)

SpecCommand == InitCommand /\ [][NextCommand]_vars

\* every score of [-1.0, 1.0], in hundredths
AllScores == -100..100

\* a plain message has been stored, routed and analysed with any of these scores
InitRespond ==
    /\ datetime_bound = TRUE
    /\ clock = 1
    /\ messages = <<Document(Message("A", "G1", CPlain, 1, ""))>>
    /\ \E score \in AllScores :
         handlers = <<Handler("respond", Message("A", "G1", CPlain, 1, ""), FALSE,
                              <<Message("A", "G1", CPlain, 1, "None")>>, <<score>>, "",
                              <<"store_message", "process_command",
                                "get_conversation_history", "process_message">>)>>
    /\ sent = <<>>
    /\ pause_requested = {}
    /\ webhook_handlers = <<>>
    /\ webhook_trace = <<>>

NextRespond ==
    \/ \E i \in 1..Len(handlers) : Respond(i)
    \/ \E i \in 1..Len(handlers) : Suppress(i)

SpecRespond == InitRespond /\ [][NextRespond]_vars

---------------------------------------------------------------------------
(* src/integrations/whatsapp.py: the handler slot and the webhook *)

\* subscribe_to_messages(callback) is called (whatsapp.py:63-70)
SubscribeToMessages(callback) ==
    /\ Len(webhook_trace) < MaxWebhookCalls
    /\ webhook_handlers' = subscribe_to_messages(webhook_handlers, callback)
    /\ webhook_trace' = Append(webhook_trace,
           [op |-> "subscribe_to_messages", callback |-> callback])
    /\ UNCHANGED <<datetime_bound, clock, messages, handlers, sent, pause_requested>>

\* process_webhook(data) is called (whatsapp.py:72-80).  The calls it
\* makes are recorded; a coroutine object it got back is dropped unrun, so
\* no handle_message call starts here
ProcessWebhook(data) ==
    /\ Len(webhook_trace) < MaxWebhookCalls
    /\ webhook_trace' = Append(webhook_trace,
           [op |-> "process_webhook", data |-> data,
            calls |-> process_webhook(webhook_handlers, data)])
    /\ UNCHANGED <<datetime_bound, clock, messages, handlers, sent, pause_requested,
                   webhook_handlers>>

NextWebhook ==
    \/ \E callback \in Callbacks : SubscribeToMessages(callback)
    \/ \E data \in WebhookData : ProcessWebhook(data)

\* one WhatsAppIntegration from its construction (webhook_handlers = {},
\* whatsapp.py:19) under any sequence of the two calls
SpecWebhook == Init /\ [][NextWebhook]_vars

---------------------------------------------------------------------------
(* Helpers of the properties *)

Range(f) == {f[x] : x \in DOMAIN f}

\* the replies sent for the message of handler i
RepliesFor(i) == {k \in 1..Len(sent) : sent[k].trigger = i}

---------------------------------------------------------------------------
(* C1 *)

\* C1: with the messages handled one after the other, while the last
\* pause/resume command handled in a group conversation is pause, no reply is
\* delivered to that conversation, whatever the score; the messages that
\* reach the decision are stored; and in a conversation that is not paused
\* (never paused, or resumed) a score below -0.7 gets its reply.
C1_PauseSuppressesReplies ==
    [][/\ \A k \in 1..Len(sent') :
            (k > Len(sent) /\ sent'[k].outcome.ok /\ sent'[k].to \in GroupIds)
                => sent'[k].to \notin pause_requested
       /\ \A i \in 1..Len(handlers) :
            handlers[i].pc = "respond" =>
                /\ Document(handlers[i].message) \in Range(messages)
                /\ (/\ handlers'[i].pc # "respond"
                    /\ handlers[i].sentiment[1] < -70
                    /\ handlers[i].message.group \notin pause_requested)
                   => Len(sent') > Len(sent)]_vars

---------------------------------------------------------------------------
(* C2 *)

\* C2: in a conversation that is not paused, a reply is sent for a processed
\* message exactly when its score is strictly below -0.7 (-70 hundredths):
\* -0.7 itself and every score above it get none, -0.71 gets one.
C2_RespondsIffBelowThreshold ==
    \A i \in 1..Len(handlers) :
        ("should_respond" \in Range(handlers[i].calls) /\ pause_requested = {}) =>
            /\ (RepliesFor(i) # {}) <=> (handlers[i].sentiment[1] < -70)
            /\ handlers[i].sentiment[1] = -70 => RepliesFor(i) = {}
            /\ handlers[i].sentiment[1] = -71 => RepliesFor(i) # {}

\* the decision was taken on the boundary score -0.7 and no reply was sent
C2_Witness ==
    \E i \in 1..Len(handlers) :
        /\ "should_respond" \in Range(handlers[i].calls)
        /\ handlers[i].sentiment = <<-70>>
        /\ handlers[i].pc = "done"
        /\ RepliesFor(i) = {}

---------------------------------------------------------------------------
(* C3 *)

\* C3: a handle_message call in which process_command returned true has ended
\* there: it fetched no history, called neither process_message nor
\* should_respond, and sent no reply.
C3_CommandEndsPipeline ==
    \A i \in 1..Len(handlers) :
        handlers[i].is_command =>
            /\ handlers[i].pc = "done"
            /\ handlers[i].calls[Len(handlers[i].calls)] \in Range(Commands)
            /\ Range(handlers[i].calls) \cap
                   {"get_conversation_history", "process_message",
                    "should_respond", "send_message"} = {}
            /\ handlers[i].sentiment = <<>>
            /\ RepliesFor(i) = {}

\* a pause command was handled and its handle_message call has returned
C3_Witness ==
    \E i \in 1..Len(handlers) :
        /\ handlers[i].is_command
        /\ handlers[i].calls = <<"store_message", "process_command", "handle_pause_command">>
        /\ handlers[i].pc = "done"

---------------------------------------------------------------------------
(* C4 *)

C4_Blank(c, from, to) == \A k \in from..to : c[k] \in {" ", "\t", "\n", "\r"}

C4_SameIgnoringCase(token, name) ==
    /\ Len(token) = Len(name)
    /\ \A k \in 1..Len(name) :
          \/ token[k] = name[k]
          \/ token[k] \in DOMAIN LowerMap /\ LowerMap[token[k]] = name[k]

\* content is '#lovebot', then whitespace, then the command name in any case,
\* and the name ends the trimmed remainder or is followed by a single space
C4_Names(content, name) ==
    \E gap \in 0..Len(content) :
        LET start == 8 + gap
            end == start + Len(name)
        IN  /\ end <= Len(content)
            /\ SubSeq(content, 1, 8) = <<"#", "l", "o", "v", "e", "b", "o", "t">>
            /\ C4_Blank(content, 9, start)
            /\ C4_SameIgnoringCase(SubSeq(content, start + 1, end), name)
            /\ \/ end = Len(content)
               \/ content[end + 1] = " "
               \/ C4_Blank(content, end + 1, Len(content))

\* C4: process_command returns true, having invoked exactly one handler (the
\* one registered for the token), exactly when the content is the prefix
\* '#lovebot' followed by one of help, pause, resume, settings, feedback as
\* the first token of the trimmed remainder, in any case; otherwise it returns
\* false, invokes no handler, and the message goes on to the history fetch.
C4_CommandRecognition ==
    \A i \in 1..Len(handlers) :
        "process_command" \in Range(handlers[i].calls) =>
            LET content == messages[i].content
                calls == handlers[i].calls
                names == {n \in {<<"h", "e", "l", "p">>, <<"p", "a", "u", "s", "e">>,
                                 <<"r", "e", "s", "u", "m", "e">>,
                                 <<"s", "e", "t", "t", "i", "n", "g", "s">>,
                                 <<"f", "e", "e", "d", "b", "a", "c", "k">>} :
                             C4_Names(content, n)}
            IN  /\ handlers[i].is_command <=> names # {}
                /\ handlers[i].is_command =>
                       /\ Len(calls) = 3
                       /\ \E n \in names : calls[3] = Commands[n]
                /\ ~handlers[i].is_command =>
                       /\ calls = <<"store_message", "process_command">>
                       /\ handlers[i].pc = "history"

\* '#lovebot  PAUSE x' was routed to the pause handler
C4_Witness ==
    /\ Len(handlers) = 1
    /\ Len(messages) = 1
    /\ messages[1].content =
           <<"#", "l", "o", "v", "e", "b", "o", "t", " ", " ", "P", "A", "U", "S", "E", " ", "x">>
    /\ handlers[1].is_command
    /\ handlers[1].calls = <<"store_message", "process_command", "handle_pause_command">>

---------------------------------------------------------------------------
(* C5 *)

\* C5: a handle_message call whose store_message was called and that has ended
\* went on to command routing, also when the store failed.
C5_StoreFailureDoesNotStopPipeline ==
    \A i \in 1..Len(handlers) :
        ("store_message" \in Range(handlers[i].calls) /\ ~Running(handlers[i])) =>
            "process_command" \in Range(handlers[i].calls)

---------------------------------------------------------------------------
(* C6 *)

\* C6: no exception leaves handle_message, whichever step failed.
C6_NoErrorLeavesHandleMessage ==
    \A i \in 1..Len(handlers) : handlers[i].pc # "raised"

---------------------------------------------------------------------------
(* C9 *)

\* C9: send_message never raises: a delivery that succeeded returned
\* {status success, message_id: the channel's sid}, a failed one {status error,
\* error: the reason}; the handle_message call that sent the reply returned
\* normally either way, and it sent the reply once.
C9_SendNeverRaises ==
    \A k \in 1..Len(sent) :
        /\ ~sent[k].result.raised
        /\ sent[k].outcome.ok =>
               sent[k].result.value = [status |-> "success", message_id |-> sent[k].outcome.sid]
        /\ ~sent[k].outcome.ok =>
               sent[k].result.value = [status |-> "error", error |-> sent[k].outcome.reason]
        /\ handlers[sent[k].trigger].pc = "done"
        /\ handlers[sent[k].trigger].error = ""
        /\ RepliesFor(sent[k].trigger) = {k}

\* a reply failed in the channel and the call that sent it has returned
C9_Witness ==
    \E k \in 1..Len(sent) :
        /\ ~sent[k].outcome.ok
        /\ sent[k].result.value.status = "error"
        /\ handlers[sent[k].trigger].pc = "done"

---------------------------------------------------------------------------
(* C10 *)

\* C10: messages whose payload had no group_id (in this model: the stored
\* group is none of GroupIds) are stored under a conversation of their
\* sender: two of them from different senders have different group_id, the
\* history fetched for one holds only its sender's messages, and a reply to
\* one is addressed to a conversation, not to the empty string.
C10_DirectMessagesKeyedBySender ==
    /\ \A a, b \in 1..Len(messages) :
          (/\ messages[a].group_id \notin GroupIds
           /\ messages[b].group_id \notin GroupIds
           /\ messages[a].user_id # messages[b].user_id)
          => messages[a].group_id # messages[b].group_id
    /\ \A i \in 1..Len(handlers) :
          (Running(handlers[i]) /\ handlers[i].message.group \notin GroupIds) =>
              \A k \in 1..Len(handlers[i].history) :
                  handlers[i].history[k].sender = handlers[i].message.sender
    /\ \A k \in 1..Len(sent) : sent[k].to # ""

---------------------------------------------------------------------------
(* C7 *)

\* the stored documents of the group of document j that are at least as recent
AtLeastAsRecent(j) ==
    {k \in Find(messages, messages[j].group_id) :
        messages[k].timestamp >= messages[j].timestamp}

\* C7 as claimed: the message stored last is the first entry of every history
\* of its group with limit N >= 1, and the history handle_message has fetched
\* for its message starts with that message.
C7_StoredMessageIsFirst ==
    /\ messages # <<>> =>
          \A N \in 1..MaxLimit :
              \A h \in get_conversation_history(
                           messages, messages[Len(messages)].group_id, N) :
                  h # <<>> /\ Document(h[1]) = messages[Len(messages)]
    /\ \A i \in 1..Len(handlers) :
          handlers[i].pc = "analyze" =>
              /\ handlers[i].history # <<>>
              /\ Document(handlers[i].history[1]) = Document(handlers[i].message)

\* C7 amended: the message stored last is the first entry of every history of
\* its group with limit N >= 1 when its timestamp is strictly later than that
\* of every other stored message of the group; and the history handle_message
\* has fetched for its message starts with that message under the same condition.
C7_LatestStoredMessageIsFirst ==
    /\ (messages # <<>> /\ AtLeastAsRecent(Len(messages)) = {Len(messages)}) =>
          \A N \in (1..MaxLimit) \cup {HistoryLimit} :
              \A h \in get_conversation_history(
                           messages, messages[Len(messages)].group_id, N) :
                  h # <<>> /\ Document(h[1]) = messages[Len(messages)]
    /\ \A i \in 1..Len(handlers) :
          (/\ handlers[i].pc \in {"analyze", "respond"}
           /\ \E j \in 1..Len(messages) :
                 /\ messages[j] = Document(handlers[i].message)
                 /\ AtLeastAsRecent(j) = {j})
          => /\ handlers[i].history # <<>>
             /\ Document(handlers[i].history[1]) = Document(handlers[i].message)

\* a second message of a group, later than the first, was stored and the
\* history fetched for it holds both, the new one first
C7_Witness ==
    /\ Len(messages) = 2
    /\ messages[1].group_id = messages[2].group_id
    /\ messages[1].timestamp < messages[2].timestamp
    /\ \E i \in 1..Len(handlers) :
          /\ handlers[i].pc = "analyze"
          /\ Len(handlers[i].history) = 2
          /\ Document(handlers[i].message) = messages[2]
          /\ Document(handlers[i].history[1]) = messages[2]

---------------------------------------------------------------------------
(* C8 *)

\* the conversations asked for: those of the payloads and one never stored
C8_Groups == GroupIds \cup {"", "G2"}

\* every history of group_id with a limit among limits: at most limit
\* messages, all of the group, newest first, none of them older than a
\* message of the group left out; as many as the limit and the group allow
C8_Contract(limits) ==
    \A group_id \in C8_Groups : \A limit \in limits :
        \A h \in get_conversation_history(messages, group_id, limit) :
            LET stored == {j \in 1..Len(messages) : messages[j].group_id = group_id}
            IN  /\ Len(h) <= limit
                /\ Len(h) = IF Cardinality(stored) < limit THEN Cardinality(stored) ELSE limit
                /\ \A k \in 1..Len(h) : h[k].group = group_id
                /\ \A k \in 1..Len(h) : \E j \in stored : Document(h[k]) = messages[j]
                /\ \A k \in 1..(Len(h) - 1) : h[k].timestamp >= h[k + 1].timestamp
                /\ \A j \in stored :
                      (\A k \in 1..Len(h) : Document(h[k]) # messages[j]) =>
                          \A k \in 1..Len(h) : h[k].timestamp >= messages[j].timestamp

\* C8: for every group_id and every limit, get_conversation_history returns
\* at most limit messages, all of the requested group, newest first, the most
\* recent ones stored for it; nothing for a group without stored messages.
C8_HistoryContract == C8_Contract(0..MaxLimit)

\* the same for the limits from 1 on
C8_HistoryContractPositiveLimits == C8_Contract(1..MaxLimit)

---------------------------------------------------------------------------
(* C11 *)

\* the subscribe_to_messages calls among the first n calls of the trace
C11_SubscriptionsBefore(n) ==
    {j \in 1..n : webhook_trace[j].op = "subscribe_to_messages"}

\* the callback of the last subscribe_to_messages call among the first n
\* calls, for n with at least one
C11_CurrentHandler(n) ==
    LET last == CHOOSE j \in C11_SubscriptionsBefore(n) :
                    \A k \in C11_SubscriptionsBefore(n) : k <= j
    IN  webhook_trace[last].callback

\* C11: at any time at most one inbound-message handler is registered, the
\* one given to the latest subscribe_to_messages call (none before the first
\* call); and every process_webhook call whose payload carries a 'message'
\* made exactly one call, of the handler registered at that moment with that
\* message, and none of a handler registered earlier; a process_webhook call
\* before any registration, or with a payload without 'message', called nothing.
C11_LastRegistrationWins ==
    /\ DOMAIN webhook_handlers \subseteq {"message"}
    /\ Cardinality(DOMAIN webhook_handlers) <= 1
    /\ ("message" \in DOMAIN webhook_handlers)
           <=> (C11_SubscriptionsBefore(Len(webhook_trace)) # {})
    /\ ("message" \in DOMAIN webhook_handlers)
           => webhook_handlers["message"] = C11_CurrentHandler(Len(webhook_trace))
    /\ \A n \in 1..Len(webhook_trace) :
          webhook_trace[n].op = "process_webhook" =>
              LET data == webhook_trace[n].data
                  calls == webhook_trace[n].calls
              IN  IF C11_SubscriptionsBefore(n - 1) # {} /\ "message" \in DOMAIN data
                  THEN /\ Len(calls) = 1
                       /\ calls[1].callback = C11_CurrentHandler(n - 1)
                       /\ calls[1].argument = data["message"]
                  ELSE calls = <<>>

\* a handler was registered, then replaced, and a payload with a message
\* that arrived afterwards called the second handler once and not the first
C11_Witness ==
    \E a, b, n \in 1..Len(webhook_trace) :
        /\ a < b /\ b < n
        /\ webhook_trace[a].op = "subscribe_to_messages"
        /\ webhook_trace[b].op = "subscribe_to_messages"
        /\ webhook_trace[a].callback # webhook_trace[b].callback
        /\ webhook_trace[n].op = "process_webhook"
        /\ Len(webhook_trace[n].calls) = 1
        /\ webhook_trace[n].calls[1].callback = webhook_trace[b].callback
        /\ webhook_handlers["message"] = webhook_trace[b].callback

====
